---- MODULE Spec2Model ----
(***************************************************************************)
(* Face-recognition attendance tracker (m-faizananwar/clone-facen).        *)
(*                                                                         *)
(* The model covers AttendanceSystem.mark_attendance of src/app.py (the    *)
(* cooldown-gated in/out attendance log) and                               *)
(* FaceRecognitionService.recognize_face of                                *)
(* src/face_recognition_service.py (best match above a threshold).         *)
(*                                                                         *)
(* Time is counted in clock ticks, TicksPerSec ticks to the second, so     *)
(* that datetime.now() has a sub-second part as it has in the program.     *)
(***************************************************************************)
EXTENDS Integers, Sequences, FiniteSets, TLC

VARIABLES
    now,         \* the wall clock, in ticks since 00:00:00 of day 0
    skews,       \* how many calls so far saw the clock move between two of their reads
    attendance,  \* AttendanceSystem.attendance: the list of day records
    call,        \* the inputs of the last mark_attendance call (employee, four clock reads)
    result,      \* what the last mark_attendance call returned
    prev,        \* AttendanceSystem.attendance as it was before the last call
    threads,     \* the request threads inside mark_attendance: position and locals
    solo,        \* per employee, the log that employee's calls alone would have built
    registry,    \* the rows of the employees table, in the order a query returns them
    threshold,   \* FaceRecognitionService.threshold
    recog,       \* the last recognize_face call: its inputs and what it returned
    verif,       \* the last verify_face call: its inputs and what it returned
    app_employees, \* AttendanceSystem.employees: the entries, in insertion order
    files,       \* the enrollment image stored at each image path ("none": no file)
    request,     \* the last add_employee or recognize_face call of the application
    anti_spoofing, \* the AntiSpoofingService: enabled, model_loaded, threshold
    liveness,    \* the last liveness verdict: the path taken, is_real and score
    setter,      \* the last update_threshold call: the service, the value, the threshold before
    is_processing, \* the module-level flag of app.py that recognize_face tests and sets
    workers      \* the request threads inside recognize_face: position and reply

vars == <<now, skews, attendance, call, result, prev, threads, solo,
          registry, threshold, recog, verif, app_employees, files, request,
          anti_spoofing, liveness, setter, is_processing, workers>>

\* the state of the attendance log and of the face matcher
attendanceVars == <<now, skews, attendance, call, result, prev, threads, solo>>
matcherVars == <<registry, threshold, recog, verif>>
appVars == <<app_employees, files, request>>
livenessVars == <<anti_spoofing, liveness>>
setterVars == <<setter>>
processingVars == <<is_processing, workers>>

----------------------------------------------------------------------------
(* Bounds of the model *)

\* resolution of the modelled clock: ticks per second
TicksPerSec == 2
\* how many seconds a run lasts after the time the system was started
MaxElapsed == 125
\* how many calls of a run may see the clock move between their clock reads
MaxSkew == 1
\* how many rows the employees table holds at most
MaxEmployees == 2

(* Program constants *)

\* a calendar day, the unit of strftime("%Y-%m-%d")
SecondsPerDay == 86400
\* the cooldown of mark_attendance: if diff < 120
CooldownSeconds == 120

TicksPerDay == SecondsPerDay * TicksPerSec

Employees == {"E1", "E2"}

----------------------------------------------------------------------------
(* datetime: formatting and parsing *)

\* datetime.now().strftime("%Y-%m-%d"): the calendar date, as a day number
strftime_date(t) == t \div TicksPerDay

\* datetime.now().strftime("%H:%M:%S"): the time of day, whole seconds
strftime_time(t) == (t % TicksPerDay) \div TicksPerSec

\* datetime.now().isoformat(): date, time of day and the sub-second part
isoformat(t) ==
    [kind |-> "iso", date |-> t \div TicksPerDay,
     sec |-> (t % TicksPerDay) \div TicksPerSec, frac |-> t % TicksPerSec]

\* a timestamp string that datetime.fromisoformat cannot parse
BadTimestamp == [kind |-> "bad", date |-> 0, sec |-> 0, frac |-> 0]
\* an event without a 'timestamp' key (or with an empty one): .get gives None
NoTimestamp == [kind |-> "none", date |-> 0, sec |-> 0, frac |-> 0]

\* datetime.fromisoformat(ts) for a well-formed ts, in ticks
fromisoformat(ts) == (ts.date * TicksPerDay) + (ts.sec * TicksPerSec) + ts.frac

\* int(x) of Python for the fraction num/den, den > 0: truncation towards zero
PyInt(num, den) == IF num >= 0 THEN num \div den ELSE -((-num) \div den)

----------------------------------------------------------------------------
(* AttendanceSystem.mark_attendance, src/app.py *)

\* one element of a record's 'events' list
Event(type, time, timestamp) == [type |-> type, time |-> time, timestamp |-> timestamp]

\* one element of self.attendance
Record(employee, date, events) == [employee |-> employee, date |-> date, events |-> events]

\* (mutant) the search loop matching the employee alone, whatever the date
MatchesAnyDate(record, employee_name, today) ==
    record.employee = employee_name

\* (mutant) the search loop matching the date alone, whoever the employee
MatchesAnyEmployee(record, employee_name, today) ==
    record.date = today

\* the test of the search loop: same employee and same date
Matches(record, employee_name, today) ==
    record.employee = employee_name /\ record.date = today

\* the search loop: the index of the first record of the employee for today,
\* 0 when the loop ends with today_record = None
FindRecord(att, employee_name, today) ==
    LET hits == {i \in 1..Len(att) : Matches(att[i], employee_name, today)}
    IN  IF hits = {} THEN 0 ELSE CHOOSE i \in hits : \A j \in hits : i <= j

\* (mutant) the difference taken as timedelta.seconds, whole seconds only
DiffWholeSeconds(last_ts, now_dt) ==
    ((now_dt - fromisoformat(last_ts)) \div TicksPerSec) * TicksPerSec

\* diff = (now_dt - last_dt).total_seconds(), in ticks
Diff(last_ts, now_dt) == now_dt - fromisoformat(last_ts)

\* (mutant) the cooldown test written diff <= 120
InCooldownInclusive(last_ts, now_dt) ==
    /\ last_ts.kind # "none"
    /\ last_ts.kind # "bad"
    /\ now_dt - fromisoformat(last_ts) <= CooldownSeconds * TicksPerSec

\* (mutant) an unparsable timestamp blocks the call instead of being passed over
InCooldownStrict(last_ts, now_dt) ==
    /\ last_ts.kind # "none"
    /\ \/ last_ts.kind = "bad"
       \/ now_dt - fromisoformat(last_ts) < CooldownSeconds * TicksPerSec

\* the cooldown check: last_ts is truthy, parses, and diff < 120.  A missing
\* timestamp skips the check, an unparsable one raises inside the inner try,
\* which passes
InCooldown(last_ts, now_dt) ==
    /\ last_ts.kind # "none"
    /\ last_ts.kind # "bad"
    /\ Diff(last_ts, now_dt) < CooldownSeconds * TicksPerSec

\* (mutant) the wait rounded up instead of truncated
WaitSecCeil(last_ts, now_dt) ==
    ((CooldownSeconds * TicksPerSec) - (now_dt - fromisoformat(last_ts))
        + (TicksPerSec - 1)) \div TicksPerSec

\* wait_sec = int(120 - diff)
WaitSec(last_ts, now_dt) ==
    PyInt((CooldownSeconds * TicksPerSec) - Diff(last_ts, now_dt), TicksPerSec)

\* (mutant) the comparison inverted: the next event repeats the last type
NextTypeSame(last_type) == IF last_type = "in" THEN "in" ELSE "out"

\* next_type = 'out' if last_type == 'in' else 'in'
NextType(last_type) == IF last_type = "in" THEN "out" ELSE "in"

\* (mutant) the new event put in front of the list
AppendEventFront(events, event) == <<event>> \o events

\* an append that writes over the last event instead of growing the list
AppendEventOver(events, event) ==
    IF events = << >> THEN <<event>> ELSE [events EXCEPT ![Len(events)] = event]

\* events.append(event)
AppendEvent(events, event) == Append(events, event)

\* what a call returns, and the log it leaves
Returned(att, ok, msg, wait) == [att |-> att, ok |-> ok, msg |-> msg, wait |-> wait]

\* self.save_attendance() followed by the return of a successful call; when
\* the save raises, the outer except returns the error instead
SaveAndReturn(att, saved, msg) ==
    IF saved THEN Returned(att, TRUE, msg, 0)
    ELSE Returned(att, FALSE, "Error marking attendance", 0)

\* the whole of mark_attendance.  r1..r4 are the four reads of the clock
\* (today, now_time, now_iso, now_dt); saved tells whether save_attendance
\* returned normally
mark_attendance(att, employee_name, r1, r2, r3, r4, saved) ==
    LET today    == strftime_date(r1)
        now_time == strftime_time(r2)
        now_iso  == isoformat(r3)
        now_dt   == r4
        i        == FindRecord(att, employee_name, today)
    IN  IF i = 0
        THEN SaveAndReturn(
                 Append(att, Record(employee_name, today,
                                    <<Event("in", now_time, now_iso)>>)),
                 saved, "Clocked IN")
        ELSE LET events == att[i].events
                 last_event == events[Len(events)]
             IN  IF events # <<>> /\ InCooldown(last_event.timestamp, now_dt)
                 THEN Returned(att, FALSE, "Please wait",
                               WaitSec(last_event.timestamp, now_dt))
                 ELSE LET next_type == IF events = <<>> THEN "in"
                                       ELSE NextType(last_event.type)
                      IN  SaveAndReturn(
                              [att EXCEPT ![i].events =
                                   AppendEvent(events, Event(next_type, now_time, now_iso))],
                              saved,
                              IF next_type = "in" THEN "Clocked IN" ELSE "Clocked OUT")

----------------------------------------------------------------------------
(* FaceRecognitionService, src/face_recognition_service.py.  Embeddings are *)
(* vectors of integers whose norms are integers; a score is the exact       *)
(* fraction num/den, den > 0.                                               *)

Fraction(num, den) == [num |-> num, den |-> den]

\* a < b, a <= b and a = b for fractions with positive denominators
Less(a, b) == a.num * b.den < b.num * a.den
LessEq(a, b) == a.num * b.den <= b.num * a.den
Same(a, b) == a.num * b.den = b.num * a.den

\* np.dot(template1, template2)
Dot(template1, template2) ==
    (template1[1] * template2[1]) + (template1[2] * template2[2])

\* np.linalg.norm(template)
Norm(template) ==
    LET sq == Dot(template, template)
    IN  CHOOSE n \in 0..sq : n * n = sq

\* (mutant) the similarity returned without clipping
ClipNone(num, den) == Fraction(num, den)

\* np.clip(similarity, 0, 1) of the fraction num/den
Clip(num, den) ==
    IF num < 0 THEN Fraction(0, 1)
    ELSE IF num > den THEN Fraction(1, 1)
    ELSE Fraction(num, den)

\* (mutant) the cosine distance 1 - dot / (norm1 * norm2) returned as the score
compare_facesDistance(template1, template2) ==
    LET dot_product == Dot(template1, template2)
        norm1 == Norm(template1)
        norm2 == Norm(template2)
    IN  IF norm1 = 0 \/ norm2 = 0
        THEN Fraction(0, 1)
        ELSE Clip((norm1 * norm2) - dot_product, norm1 * norm2)

\* compare_faces with distance_metric = 'cosine': 0.0 when a norm is zero,
\* else 1 - (1 - dot / (norm1 * norm2)), clipped to [0, 1]
compare_faces(template1, template2) ==
    LET dot_product == Dot(template1, template2)
        norm1 == Norm(template1)
        norm2 == Norm(template2)
    IN  IF norm1 = 0 \/ norm2 = 0
        THEN Fraction(0, 1)
        ELSE Clip(dot_product, norm1 * norm2)

\* a row of the employees table; an empty face_template makes
\* get_face_template_array return None
Employee(employee_id, is_active, face_template) ==
    [employee_id |-> employee_id, is_active |-> is_active,
     face_template |-> face_template]

\* Employee.query.filter_by(is_active=True).all()
ActiveEmployees(rows) == SelectSeq(rows, LAMBDA row : row.is_active)

\* what recognize_face returns: None, or (employee_id, score)
NoMatch == [found |-> FALSE, employee_id |-> "none", score |-> Fraction(0, 1)]
Match(employee_id, score) == [found |-> TRUE, employee_id |-> employee_id, score |-> score]

\* no update_threshold call yet
NoSetter == [service |-> "none", value |-> Fraction(0, 1), before |-> Fraction(0, 1)]

\* (mutant) the comparison written >=, so that a later equal score replaces the best
IsBetterOrEqual(similarity, best_score, limit) ==
    LessEq(best_score, similarity) /\ LessEq(limit, similarity)

\* the test of the loop: similarity > best_score and similarity >= self.threshold
IsBetter(similarity, best_score, limit) ==
    Less(best_score, similarity) /\ LessEq(limit, similarity)

\* the loop over the employees from row k on, best being (best_match, best_score)
RECURSIVE BestFrom(_, _, _, _, _)
BestFrom(query_template, employees, limit, k, best) ==
    IF k > Len(employees) THEN best
    ELSE IF employees[k].face_template = << >>
    THEN BestFrom(query_template, employees, limit, k + 1, best)
    ELSE LET similarity == compare_faces(query_template, employees[k].face_template)
         IN  BestFrom(query_template, employees, limit, k + 1,
                      IF IsBetter(similarity, best.score, limit)
                      THEN Match(employees[k].employee_id, similarity)
                      ELSE best)

\* no face found in the query image: extract_face_template returned None
NoFace == << >>

\* recognize_face, from the extracted query template on
recognize_face(query_template, rows, limit) ==
    IF query_template = NoFace THEN NoMatch
    ELSE LET employees == ActiveEmployees(rows)
         IN  IF employees = << >> THEN NoMatch
             ELSE BestFrom(query_template, employees, limit, 1, NoMatch)

\* what verify_face returns: (is_match, confidence_score)
Verdict(is_match, similarity) == [is_match |-> is_match, similarity |-> similarity]

\* (mutant) the threshold test written with a strict comparison
IsMatchStrict(similarity, limit) == Less(limit, similarity)

\* is_match = similarity >= self.threshold
IsMatch(similarity, limit) == LessEq(limit, similarity)

\* Employee.query.filter_by(employee_id=employee_id, is_active=True).first():
\* the rows found, of which verify_face takes the first
ActiveWithId(rows, employee_id) ==
    SelectSeq(rows, LAMBDA row : row.employee_id = employee_id /\ row.is_active)

\* verify_face, from the extracted query template on
verify_face(query_template, rows, employee_id, limit) ==
    IF query_template = NoFace THEN Verdict(FALSE, Fraction(0, 1))
    ELSE LET found == ActiveWithId(rows, employee_id)
         IN  IF found = << >> THEN Verdict(FALSE, Fraction(0, 1))
             ELSE LET employee_template == found[1].face_template
                  IN  IF employee_template = << >>
                      THEN Verdict(FALSE, Fraction(0, 1))
                      ELSE LET similarity == compare_faces(query_template, employee_template)
                           IN  Verdict(IsMatch(similarity, limit), similarity)

\* (mutant) update_threshold with no test of the value
update_thresholdAny(old_threshold, new_threshold) == new_threshold

\* update_threshold: a value outside [0.0, 1.0] is refused
update_threshold(old_threshold, new_threshold) ==
    IF LessEq(Fraction(0, 1), new_threshold) /\ LessEq(new_threshold, Fraction(1, 1))
    THEN new_threshold
    ELSE old_threshold

\* self.threshold = 0.4
DefaultThreshold == Fraction(2, 5)

----------------------------------------------------------------------------
(* AttendanceSystem.add_employee and recognize_face, src/app.py.  The       *)
(* detector, the anti-spoofing check and the matcher are DeepFace calls:    *)
(* what they return is an input of the call.                                *)

\* the names enrollments are posted with
Names == {"Ann Lee", "Ann_Lee", "Bob"}

\* name.replace(" ", "_")
Underscored(name) == IF name = "Ann Lee" THEN "Ann_Lee" ELSE name

\* os.path.join(DB_PATH, dir, file + ".jpg"), dir and file being the name
\* with its spaces replaced
ImagePath(name) == Underscored(name)

ImagePaths == {ImagePath(name) : name \in Names}

\* the faces a posted image may show
Images == {"face1", "face2"}

\* no image stored under any path
NoFiles == [path \in ImagePaths |-> "none"]

\* what DeepFace.extract_faces(anti_spoofing=True) does: it raises, or
\* returns one is_real flag per face found
Raised == [raised |-> TRUE, faces |-> << >>]
Faces(flags) == [raised |-> FALSE, faces |-> flags]
SpoofingResults ==
    {Raised, Faces(<< >>), Faces(<<FALSE>>), Faces(<<TRUE>>), Faces(<<FALSE, TRUE>>)}

\* the loop over spoofing_result that sets real_face_detected
RealFaceDetected(spoofing_result) ==
    \E i \in 1..Len(spoofing_result.faces) : spoofing_result.faces[i]

\* (mutant) add_employee going on to store the employee when the check raised
EnrollmentPassesOrRaised(spoofing_result) ==
    spoofing_result.raised \/ RealFaceDetected(spoofing_result)

\* add_employee goes on to step 2: the check returned, found a face, and a
\* face is real
EnrollmentPasses(spoofing_result) ==
    /\ ~spoofing_result.raised
    /\ Len(spoofing_result.faces) # 0
    /\ RealFaceDetected(spoofing_result)

\* recognize_face goes on to step 2: as add_employee, or the check raised
RecognitionGoesOn(spoofing_result) ==
    \/ spoofing_result.raised
    \/ /\ Len(spoofing_result.faces) # 0
       /\ RealFaceDetected(spoofing_result)

\* the message of add_employee when step 1 returns
RefusalMessage(spoofing_result) ==
    IF spoofing_result.raised THEN "Error during antispoofing verification"
    ELSE IF Len(spoofing_result.faces) = 0 THEN "No face detected in the image"
    ELSE "Spoofing detected"

\* an entry of self.employees
Entry(id, name, image_path, created_at) ==
    [id |-> id, name |-> name, image_path |-> image_path, created_at |-> created_at]

\* self.employees[name] = entry: an existing key keeps its place
PutEntry(emps, entry) ==
    IF \E i \in 1..Len(emps) : emps[i].name = entry.name
    THEN [i \in 1..Len(emps) |-> IF emps[i].name = entry.name THEN entry ELSE emps[i]]
    ELSE Append(emps, entry)

\* what add_employee leaves and returns
Added(emps, fls, ok, msg) == [employees |-> emps, files |-> fls, ok |-> ok, msg |-> msg]

\* the points of add_employee at which a file operation may raise
AddFaults == {"none", "decode", "image_save", "save_employees"}

\* add_employee(name, image_data): image is the face the posted picture
\* shows, fault the file operation that raises, t the clock
add_employee(emps, fls, name, image, spoofing_result, fault, t) ==
    IF fault = "decode" THEN Added(emps, fls, FALSE, "Error adding employee")
    ELSE IF ~EnrollmentPasses(spoofing_result)
    THEN Added(emps, fls, FALSE, RefusalMessage(spoofing_result))
    ELSE IF fault = "image_save"
    THEN Added(emps, fls, FALSE, "Error adding employee")
    ELSE LET image_path == ImagePath(name)
             stored == [fls EXCEPT ![image_path] = image]
             entry == Entry(Len(emps) + 1, name, image_path, isoformat(t))
         IN  IF fault = "save_employees"
             THEN Added(PutEntry(emps, entry), stored, FALSE, "Error adding employee")
             ELSE Added(PutEntry(emps, entry), stored, TRUE, "Employee added successfully")

\* what DeepFace.find does: it raises, or returns the stored images it
\* matched, best first, each with its distance in hundredths
FindRaised == [raised |-> TRUE, rows |-> << >>]
Found(rows) == [raised |-> FALSE, rows |-> rows]
FoundRow(identity, distance) == [identity |-> identity, distance |-> distance]

\* distance < 0.65
RecognitionDistance == 65

\* the first name whose image_path is in identity_path, "none" if there is none
NameOfPath(emps, identity_path) ==
    LET hits == SelectSeq(emps, LAMBDA info : info.image_path = identity_path)
    IN  IF hits = << >> THEN "none" ELSE hits[1].name

\* what recognize_face returns, and whether it called DeepFace.find
Recognized(identity, msg, is_real, matched) ==
    [identity |-> identity, msg |-> msg, is_real |-> is_real, matched |-> matched]

\* os.path.exists(DB_PATH) and os.listdir(DB_PATH)
DatabaseFilled(fls) == \E path \in ImagePaths : fls[path] # "none"

\* recognize_face(image_data)
app_recognize_face(emps, fls, decodable, spoofing_result, found) ==
    IF ~decodable THEN Recognized("none", "Processing error", FALSE, FALSE)
    ELSE IF ~spoofing_result.raised /\ Len(spoofing_result.faces) = 0
    THEN Recognized("none", "No face detected", FALSE, FALSE)
    ELSE IF ~RecognitionGoesOn(spoofing_result)
    THEN Recognized("none", "Spoofing detected", FALSE, FALSE)
    ELSE IF ~DatabaseFilled(fls)
    THEN Recognized("none", "No employees in database", TRUE, FALSE)
    ELSE IF found.raised
    THEN Recognized("none", "Recognition error", TRUE, TRUE)
    ELSE IF found.rows = << >>
    THEN Recognized("none", "Face not recognized", TRUE, TRUE)
    ELSE LET employee_name == NameOfPath(emps, found.rows[1].identity)
         IN  IF employee_name # "none" /\ found.rows[1].distance < RecognitionDistance
             THEN Recognized(employee_name, "Recognized", TRUE, TRUE)
             ELSE Recognized("none", "Face not recognized", TRUE, TRUE)

\* no add_employee or recognize_face call yet
NoRequest ==
    [op |-> "none", spoofing_result |-> Faces(<< >>),
     ok |-> FALSE, msg |-> "none", identity |-> "none", matched |-> FALSE]

----------------------------------------------------------------------------
(* AntiSpoofingService, src/anti_spoofing_service.py.  What the image       *)
(* analysis measures on an image, and what the trained classifier returns,  *)
(* are inputs; scores are exact fractions.                                  *)

\* (mutant) a failed analysis scored 0.0
NoScore == Fraction(0, 10)

\* the bucket scores of the signal extractors
High == Fraction(8, 10)
Medium == Fraction(6, 10)
Low == Fraction(3, 10)
NoSpots == Fraction(4, 10)
Neutral == Fraction(5, 10)

\* (a + b) / 2
HalfSum(a, b) ==
    IF a.den = b.den THEN Fraction(a.num + b.num, 2 * a.den)
    ELSE Fraction((a.num * b.den) + (b.num * a.den), 2 * a.den * b.den)

\* _analyze_color_distribution: m.channels is len(image.shape), m.raises
\* tells that a step of the analysis raised
_analyze_color_distribution(m) ==
    IF m.raises THEN Neutral
    ELSE IF m.channels # 3 THEN Neutral
    ELSE LET color_score ==
                 IF m.sat_std > 20 /\ m.sat_mean > 50 THEN High
                 ELSE IF m.sat_std > 10 /\ m.sat_mean > 30 THEN Medium
                 ELSE Low
             entropy_score ==
                 IF m.avg_entropy > 6 THEN High
                 ELSE IF m.avg_entropy > 4 THEN Medium
                 ELSE Low
         IN  HalfSum(color_score, entropy_score)

\* np.var of what _calculate_lbp returns: the LBP image, or the grayscale
\* image itself when the computation raised (it catches what it raises)
_calculate_lbp(m) == IF m.lbp_raises THEN m.gray_var ELSE m.lbp_var

\* _analyze_texture
_analyze_texture(m) ==
    IF m.raises THEN Neutral
    ELSE LET lbp_var == _calculate_lbp(m)
         IN  IF lbp_var > 1000 /\ m.grad_mean > 10 THEN High
             ELSE IF lbp_var > 500 /\ m.grad_mean > 5 THEN Medium
             ELSE Low

\* _analyze_frequency_domain: the high frequency ratio in hundredths
_analyze_frequency_domain(m) ==
    IF m.raises THEN Neutral
    ELSE IF m.high_freq_ratio > 30 THEN High
    ELSE IF m.high_freq_ratio > 20 THEN Medium
    ELSE Low

\* _analyze_reflections: m.spots is the number of bright components
_analyze_reflections(m) ==
    IF m.raises THEN Neutral
    ELSE IF m.spots = 0 THEN NoSpots
    ELSE IF 10 <= m.avg_spot_size /\ m.avg_spot_size <= 100 /\ m.max_spot_size <= 500
    THEN High
    ELSE IF m.avg_spot_size <= 200 THEN Medium
    ELSE Low

\* (mutant) the mean taken over the first three scores only
MeanOfThree(scores) ==
    Fraction((scores[1].num * scores[2].den * scores[3].den)
             + (scores[2].num * scores[1].den * scores[3].den)
             + (scores[3].num * scores[1].den * scores[2].den),
             3 * scores[1].den * scores[2].den * scores[3].den)

\* np.mean(scores) of four scores
Mean(scores) ==
    Fraction((scores[1].num * scores[2].den * scores[3].den * scores[4].den)
             + (scores[2].num * scores[1].den * scores[3].den * scores[4].den)
             + (scores[3].num * scores[1].den * scores[2].den * scores[4].den)
             + (scores[4].num * scores[1].den * scores[2].den * scores[3].den),
             4 * scores[1].den * scores[2].den * scores[3].den * scores[4].den)

\* (mutant) the liveness test written with >=
IsRealInclusive(score, limit) == LessEq(limit, score)

\* is_real = score > self.threshold
IsReal(score, limit) == Less(limit, score)

\* what a detector returns: (is_real, score)
Liveness(is_real, score) == [is_real |-> is_real, score |-> score]

\* (mutant) the detectors' except clauses returning a spoof verdict
FailClosed == Liveness(FALSE, Fraction(0, 1))

\* return True, 1.0 of the detectors' except clauses
FailOpen == Liveness(TRUE, Fraction(1, 1))

\* _detect_with_fallback: measured holds what each extractor measures,
\* raises tells that a statement outside the extractors raised
_detect_with_fallback(measured, raises, limit) ==
    IF raises THEN FailOpen
    ELSE LET scores == << _analyze_color_distribution(measured.color),
                          _analyze_texture(measured.texture),
                          _analyze_frequency_domain(measured.frequency),
                          _analyze_reflections(measured.reflection) >>
             final_score == Mean(scores)
         IN  Liveness(IsReal(final_score, limit), final_score)

\* what self.model.predict does: it raises, or returns a dict with a score
\* and a label, a bare number, or an object of another type
PredictRaised == [kind |-> "raises", score |-> Fraction(0, 1), label |-> 0]
PredictDict(score, label) == [kind |-> "dict", score |-> score, label |-> label]
PredictNumber(score) == [kind |-> "number", score |-> score, label |-> 0]
PredictOther == [kind |-> "other", score |-> Fraction(0, 1), label |-> 0]

\* _detect_with_minifasnet; _preprocess_for_minifasnet catches what it
\* raises and hands the image on
_detect_with_minifasnet(prediction, limit) ==
    IF prediction.kind = "raises" THEN FailOpen
    ELSE IF prediction.kind = "dict"
    THEN Liveness(prediction.label = 1, prediction.score)
    ELSE LET score == IF prediction.kind = "number" THEN prediction.score ELSE Neutral
         IN  Liveness(IsReal(score, limit), score)

\* (mutant) the heuristics used whether or not a model is loaded
DetectFallbackOnly(service, measured, raises, prediction) ==
    _detect_with_fallback(measured, raises, service.threshold)

\* the detector is_real_face and get_liveness_score choose
Detect(service, measured, raises, prediction) ==
    IF service.model_loaded
    THEN _detect_with_minifasnet(prediction, service.threshold)
    ELSE _detect_with_fallback(measured, raises, service.threshold)

\* is_real_face
is_real_face(service, measured, raises, prediction) ==
    IF ~service.enabled THEN TRUE
    ELSE Detect(service, measured, raises, prediction).is_real

\* get_liveness_score
get_liveness_score(service, measured, raises, prediction) ==
    IF ~service.enabled THEN Fraction(1, 1)
    ELSE Detect(service, measured, raises, prediction).score

\* AntiSpoofingService.update_threshold: a value outside [0.0, 1.0] is refused
anti_spoofing_update_threshold(old_threshold, new_threshold) ==
    IF LessEq(Fraction(0, 1), new_threshold) /\ LessEq(new_threshold, Fraction(1, 1))
    THEN new_threshold
    ELSE old_threshold

\* the service after __init__: enabled by the environment, the classifier
\* loaded when enabled and the library is installed
Service(enabled, model_loaded, limit) ==
    [enabled |-> enabled, model_loaded |-> model_loaded, threshold |-> limit]

\* self.threshold = 0.5
DefaultLivenessThreshold == Fraction(1, 2)

\* no liveness call yet
NoLiveness ==
    [called |-> FALSE, path |-> "none", fault |-> "none", scores |-> << >>,
     raised |-> << >>, prediction |-> PredictOther, model_loaded |-> FALSE,
     threshold |-> DefaultLivenessThreshold, is_real |-> FALSE,
     score |-> Fraction(0, 1)]

----------------------------------------------------------------------------
(* The state after AttendanceSystem.__init__ *)

\* the times of day at which a run starts: 09:00:00, and one tick less than a
\* minute before the last minute of the day; both on day 1
StartTimes ==
    { TicksPerDay + (9 * 3600 * TicksPerSec),
      TicksPerDay + ((SecondsPerDay - 60) * TicksPerSec) - 1 }

\* the contents of attendance.json that load_data may find: no file, or a log
\* written earlier (events of an older format carry no usable timestamp)
LoadedLogs ==
    { << >>,
      << Record("E1", 1, << Event("in", 8 * 3600, BadTimestamp) >>) >>,
      << Record("E1", 1, << Event("in", 8 * 3600, NoTimestamp) >>) >>,
      << Record("E1", 1, << >>) >>,
      << Record("E1", 0, << Event("in", 8 * 3600, isoformat(8 * 3600 * TicksPerSec)),
                            Event("out", 17 * 3600, isoformat(17 * 3600 * TicksPerSec)) >>) >> }

NoCall == [employee |-> "none", r1 |-> 0, r2 |-> 0, r3 |-> 0, r4 |-> 0]
NoResult == [ok |-> FALSE, msg |-> "none", wait |-> 0]

\* the request threads of the server
Threads == {"t1", "t2"}

\* the records of one employee, in the order of the log
RecordsOf(att, employee_name) ==
    SelectSeq(att, LAMBDA record : record.employee = employee_name)

\* a thread that is not inside mark_attendance; msg is the message its last
\* call returned, same tells whether that call returned what it returns when
\* the employee's calls run alone; seen is the number of events the record
\* held when the call read its last event
IdleThread(msg, same) ==
    [pc |-> "idle", employee |-> "none", today |-> 0, now_time |-> 0,
     now_iso |-> NoTimestamp, now_dt |-> 0, index |-> 0, today_record |-> 0,
     next_type |-> "none", msg |-> msg, same |-> same,
     expect |-> NoResult, before |-> << >>, seen |-> 0]

\* a thread that is not inside AttendanceSystem.recognize_face; msg is the
\* message its last call returned, busy whether is_processing was set when
\* that call tested it
IdleWorker == [pc |-> "idle", msg |-> "none", busy |-> FALSE]

\* no recognize_face call yet
NoRecognition ==
    [called |-> FALSE, query |-> NoFace, threshold |-> DefaultThreshold,
     found |-> FALSE, employee_id |-> "none", score |-> Fraction(0, 1)]

\* no verify_face call yet
NoVerification ==
    [called |-> FALSE, query |-> NoFace, employee_id |-> "none",
     threshold |-> DefaultThreshold, is_match |-> FALSE, similarity |-> Fraction(0, 1)]

Init ==
    /\ now \in StartTimes
    /\ skews = 0
    /\ attendance \in LoadedLogs
    /\ call = NoCall
    /\ result = NoResult
    /\ prev = attendance
    /\ threads = [t \in Threads |-> IdleThread("none", TRUE)]
    /\ solo = [e \in Employees |-> RecordsOf(attendance, e)]
    /\ registry = << >>
    /\ threshold = DefaultThreshold
    /\ recog = NoRecognition
    /\ verif = NoVerification
    /\ app_employees = << >>
    /\ files = NoFiles
    /\ request = NoRequest
    /\ anti_spoofing = Service(TRUE, FALSE, DefaultLivenessThreshold)
    /\ liveness = NoLiveness
    /\ setter = NoSetter
    /\ is_processing = FALSE
    /\ workers = [t \in Threads |-> IdleWorker]

----------------------------------------------------------------------------
(* Actions *)

\* a run stays within MaxElapsed seconds of its start
InWindow(t) == \E s \in StartTimes : s <= t /\ t <= s + (MaxElapsed * TicksPerSec)

\* time passes between two requests
TickSteps == {60 * TicksPerSec, 61 * TicksPerSec}

Tick ==
    /\ \E d \in TickSteps : InWindow(now + d) /\ now' = now + d
    /\ UNCHANGED <<skews, attendance, call, result, prev, threads, solo, matcherVars, appVars, livenessVars, setterVars, processingVars>>

\* the four clock reads of a call: the clock moves by one tick just before
\* read number gap (2, 3 or 4), or not at all (gap = 0)
ReadAt(t, gap, k) == IF gap # 0 /\ k >= gap THEN t + 1 ELSE t

\* POST /mark_attendance for an employee, the calls serialized: the handler
\* runs from its first clock read to its return
Mark ==
    \E e \in Employees, gap \in {0, 2, 3, 4} :
        /\ gap # 0 => skews < MaxSkew
        /\ LET r1 == ReadAt(now, gap, 1)
               r2 == ReadAt(now, gap, 2)
               r3 == ReadAt(now, gap, 3)
               r4 == ReadAt(now, gap, 4)
               out == mark_attendance(attendance, e, r1, r2, r3, r4, TRUE)
           IN  /\ attendance' = out.att
               /\ result' = [ok |-> out.ok, msg |-> out.msg, wait |-> out.wait]
               /\ call' = [employee |-> e, r1 |-> r1, r2 |-> r2, r3 |-> r3, r4 |-> r4]
               /\ prev' = attendance
               /\ now' = r4
        /\ skews' = IF gap = 0 THEN skews ELSE skews + 1
        /\ UNCHANGED <<threads, solo, matcherVars, appVars, livenessVars, setterVars, processingVars>>

Next == Tick \/ Mark

Spec == Init /\ [][Next]_vars

----------------------------------------------------------------------------
(* mark_attendance step by step, for requests served by concurrent threads. *)
(* A step is one access to self.attendance or to a record's events list.   *)

\* the thread th returns (ok, msg, wait) to its caller
Return(th, ok, msg, wait) ==
    IdleThread(msg, th.expect = [ok |-> ok, msg |-> msg, wait |-> wait])

\* lines 244-247: the four clock reads; the search loop starts
BeginCall(t, e, gap) ==
    /\ threads[t].pc = "idle"
    /\ gap # 0 => skews < MaxSkew
    /\ LET r1 == ReadAt(now, gap, 1)
           r2 == ReadAt(now, gap, 2)
           r3 == ReadAt(now, gap, 3)
           r4 == ReadAt(now, gap, 4)
           alone == mark_attendance(solo[e], e, r1, r2, r3, r4, TRUE)
       IN  /\ threads' = [threads EXCEPT ![t] =
                 [pc |-> "scan", employee |-> e, today |-> strftime_date(r1),
                  now_time |-> strftime_time(r2), now_iso |-> isoformat(r3),
                  now_dt |-> r4, index |-> 1, today_record |-> 0,
                  next_type |-> "none", msg |-> "none", same |-> TRUE,
                  expect |-> [ok |-> alone.ok, msg |-> alone.msg, wait |-> alone.wait],
                  before |-> solo[e], seen |-> 0]]
           /\ solo' = [solo EXCEPT ![e] = alone.att]
           /\ now' = r4
    /\ skews' = IF gap = 0 THEN skews ELSE skews + 1
    /\ UNCHANGED <<attendance, call, result, prev, matcherVars, appVars, livenessVars, setterVars, processingVars>>

\* a request for an employee no other thread is serving
Begin ==
    \E t \in Threads, e \in Employees, gap \in {0, 2, 3, 4} :
        /\ \A u \in Threads : threads[u].pc # "idle" => threads[u].employee # e
        /\ BeginCall(t, e, gap)

\* lines 250-253: one turn of the search loop, over the list as it is now
Scan(t) ==
    /\ threads[t].pc = "scan"
    /\ LET th == threads[t]
       IN  threads' = [threads EXCEPT ![t] =
             IF th.index > Len(attendance)
             THEN [th EXCEPT !.pc = "create"]
             ELSE IF Matches(attendance[th.index], th.employee, th.today)
                  THEN [th EXCEPT !.pc = "check", !.today_record = th.index]
                  ELSE [th EXCEPT !.index = th.index + 1]]
    /\ UNCHANGED <<now, skews, attendance, call, result, prev, solo, matcherVars, appVars, livenessVars, setterVars, processingVars>>

\* lines 254-263: today_record is None; the new record is appended to the log
Create(t) ==
    /\ threads[t].pc = "create"
    /\ attendance' = Append(attendance,
                            Record(threads[t].employee, threads[t].today,
                                   <<Event("in", threads[t].now_time, threads[t].now_iso)>>))
    /\ threads' = [threads EXCEPT ![t] =
                      [threads[t] EXCEPT !.pc = "save", !.next_type = "in"]]
    /\ UNCHANGED <<now, skews, call, result, prev, solo, matcherVars, appVars, livenessVars, setterVars, processingVars>>

\* lines 268-285: the last event is read and the cooldown tested; the call
\* returns the rejection or goes on to append
Check(t) ==
    /\ threads[t].pc = "check"
    /\ LET th == threads[t]
           events == attendance[th.today_record].events
           last_event == events[Len(events)]
       IN  threads' = [threads EXCEPT ![t] =
             IF events # << >> /\ InCooldown(last_event.timestamp, th.now_dt)
             THEN Return(th, FALSE, "Please wait",
                         WaitSec(last_event.timestamp, th.now_dt))
             ELSE [th EXCEPT !.pc = "append", !.seen = Len(events),
                             !.next_type = IF events = << >> THEN "in"
                                           ELSE NextType(last_event.type)]]
    /\ UNCHANGED <<now, skews, attendance, call, result, prev, solo, matcherVars, appVars, livenessVars, setterVars, processingVars>>

\* lines 286-287: events.append on the list of the record found
AppendStep(t) ==
    /\ threads[t].pc = "append"
    /\ attendance' = [attendance EXCEPT ![threads[t].today_record].events =
                         AppendEvent(@, Event(threads[t].next_type, threads[t].now_time,
                                              threads[t].now_iso))]
    /\ threads' = [threads EXCEPT ![t] = [threads[t] EXCEPT !.pc = "save"]]
    /\ UNCHANGED <<now, skews, call, result, prev, solo, matcherVars, appVars, livenessVars, setterVars, processingVars>>

\* lines 264-265 and 288-289: save_attendance, then the return
Save(t) ==
    /\ threads[t].pc = "save"
    /\ LET out == SaveAndReturn(attendance, TRUE,
                                IF threads[t].next_type = "in"
                                THEN "Clocked IN" ELSE "Clocked OUT")
       IN  threads' = [threads EXCEPT ![t] =
                          Return(threads[t], out.ok, out.msg, out.wait)]
    /\ UNCHANGED <<now, skews, attendance, call, result, prev, solo, matcherVars, appVars, livenessVars, setterVars, processingVars>>

ScanStep == \E t \in Threads : Scan(t)
CreateStep == \E t \in Threads : Create(t)
CheckStep == \E t \in Threads : Check(t)
AppendEventStep == \E t \in Threads : AppendStep(t)
SaveStep == \E t \in Threads : Save(t)

NextPar == Tick \/ Begin \/ ScanStep \/ CreateStep \/ CheckStep \/ AppendEventStep \/ SaveStep

\* the server starts at 09:00:00 with an empty log
InitPar == Init /\ now = TicksPerDay + (9 * 3600 * TicksPerSec) /\ attendance = << >>

\* concurrent requests, those for one employee one after the other
SpecPar == InitPar /\ [][NextPar]_vars

----------------------------------------------------------------------------
(* What the claims speak of, read off the state: the last call, the log   *)
(* before it (prev) and after it (attendance)                              *)

\* a call has been made
Called == call.employee # "none"

\* the calendar date the call took for today, and the instant of its cooldown clock
CallDate == call.r1 \div TicksPerDay
CallClock == call.r4

\* the records the log held for the caller and that date before the call
TodayBefore ==
    {i \in 1..Len(prev) : prev[i].employee = call.employee /\ prev[i].date = CallDate}

\* the last element of a non-empty sequence
Last(seq) == seq[Len(seq)]

\* the instant a well-formed timestamp denotes, in ticks
Instant(ts) == (((ts.date * SecondsPerDay) + ts.sec) * TicksPerSec) + ts.frac

WellFormed(ts) == ts.kind = "iso"

\* the other event type
Opposite(type) == IF type = "in" THEN "out" ELSE "in"

\* the log `after` is the log `before` with one event appended to record i
AppendedTo(before, after, i) ==
    /\ Len(after) = Len(before)
    /\ \A j \in 1..Len(before) : j # i => after[j] = before[j]
    /\ after[i].employee = before[i].employee
    /\ after[i].date = before[i].date
    /\ Len(after[i].events) = Len(before[i].events) + 1
    /\ SubSeq(after[i].events, 1, Len(before[i].events)) = before[i].events

\* the new event carries the call's clock reads
StampedByCall(ev) ==
    /\ ev.time = (call.r2 % TicksPerDay) \div TicksPerSec
    /\ WellFormed(ev.timestamp)
    /\ Instant(ev.timestamp) = call.r3

\* the whole seconds w left of the cooldown after `elapsed` ticks: w <= 120 - elapsed < w + 1
IsRemainingWait(w, elapsed) ==
    /\ w * TicksPerSec <= (CooldownSeconds * TicksPerSec) - elapsed
    /\ (CooldownSeconds * TicksPerSec) - elapsed < (w + 1) * TicksPerSec

----------------------------------------------------------------------------
\* C1: when today's record of the employee ends in an event with a well-formed
\* timestamp and the call comes less than 120 seconds after it, the call returns
\* ok = false with the remaining wait int(120 - elapsed) in whole seconds, and
\* the attendance log is exactly what it was before the call.
C1_CooldownRejects ==
    \A i \in TodayBefore :
        ( /\ Called
          /\ prev[i].events # << >>
          /\ WellFormed(Last(prev[i].events).timestamp)
          /\ CallClock - Instant(Last(prev[i].events).timestamp) < CooldownSeconds * TicksPerSec )
        => /\ result.ok = FALSE
           /\ result.msg = "Please wait"
           /\ IsRemainingWait(result.wait,
                              CallClock - Instant(Last(prev[i].events).timestamp))
           /\ attendance = prev

\* a call rejected inside the cooldown whose remaining wait is not a whole
\* number of seconds, so that int() truncates
C1_Witness ==
    /\ Called
    /\ \E i \in TodayBefore :
          /\ prev[i].events # << >>
          /\ WellFormed(Last(prev[i].events).timestamp)
          /\ CallClock - Instant(Last(prev[i].events).timestamp) < CooldownSeconds * TicksPerSec
          /\ (CallClock - Instant(Last(prev[i].events).timestamp)) % TicksPerSec # 0
    /\ result.ok = FALSE
    /\ result.msg = "Please wait"
    /\ attendance = prev

\* C2: in every state reached by serialized calls, the events of each
\* (employee, date) record alternate in type and start with 'in'.
C2_Alternates ==
    \A i \in 1..Len(attendance) :
        \A k \in 1..Len(attendance[i].events) :
            attendance[i].events[k].type = (IF k % 2 = 1 THEN "in" ELSE "out")

\* a record whose last two events the calls appended: in, out, in
C2_Witness ==
    /\ Called
    /\ result.ok
    /\ \E i \in 1..Len(attendance) :
          /\ Len(attendance[i].events) >= 3
          /\ i <= Len(prev)
          /\ Len(prev[i].events) = Len(attendance[i].events) - 1
          /\ WellFormed(Last(prev[i].events).timestamp)

C4_CooldownAcrossDays ==
    \A j \in 1..Len(prev) :
        ( /\ Called
          /\ prev[j].employee = call.employee
          /\ prev[j].date < CallDate
          /\ \A m \in 1..Len(prev) : prev[m].employee = call.employee => m <= j
          /\ prev[j].events # << >>
          /\ WellFormed(Last(prev[j].events).timestamp)
          /\ CallClock - Instant(Last(prev[j].events).timestamp) < CooldownSeconds * TicksPerSec )
        => result.ok = FALSE

----------------------------------------------------------------------------
(* The scenario of C6: employee E1, one calendar day, an empty log *)

\* the second of the day shown as hh:mm:ss
TimeOfDay(hh, mm, ss) == (hh * 3600) + (mm * 60) + ss

\* the instant t lies within the second of the day sod
InSecond(t, sod) == (t % TicksPerDay) \div TicksPerSec = sod

\* all four clock reads of the call lie within the second sod
CallInSecond(sod) ==
    /\ InSecond(call.r1, sod) /\ InSecond(call.r2, sod)
    /\ InSecond(call.r3, sod) /\ InSecond(call.r4, sod)

\* the log holds E1's mark of 09:00:00 and nothing else
OnlyMarkAt0900(log) ==
    /\ Len(log) = 1
    /\ log[1].employee = "E1"
    /\ log[1].date = CallDate
    /\ Len(log[1].events) = 1
    /\ log[1].events[1].type = "in"
    /\ log[1].events[1].time = TimeOfDay(9, 0, 0)
    /\ WellFormed(log[1].events[1].timestamp)
    /\ log[1].events[1].timestamp.date = CallDate
    /\ log[1].events[1].timestamp.sec = TimeOfDay(9, 0, 0)

\* the first mark, at 09:00:00, succeeds with an 'in' event
C6_FirstMark ==
    (Called /\ call.employee = "E1" /\ prev = << >> /\ CallInSecond(TimeOfDay(9, 0, 0)))
    => /\ result.ok
       /\ result.msg = "Clocked IN"
       /\ OnlyMarkAt0900(attendance)

\* the third mark, at 09:02:01, succeeds with an 'out' event
C6_ThirdMark ==
    ( /\ Called /\ call.employee = "E1"
      /\ OnlyMarkAt0900(prev)
      /\ CallInSecond(TimeOfDay(9, 2, 1)) )
    => /\ result.ok
       /\ result.msg = "Clocked OUT"
       /\ AppendedTo(prev, attendance, 1)
       /\ attendance[1].events[2].type = "out"
       /\ attendance[1].events[2].time = TimeOfDay(9, 2, 1)

\* the second mark, at 09:01:00, is rejected; the wait is waitIfLater when
\* the clock of the second mark is later within its second than the first
\* mark's timestamp is within its own, and waitOtherwise when it is not
C6_SecondMark(waitIfLater, waitOtherwise) ==
    ( /\ Called /\ call.employee = "E1"
      /\ OnlyMarkAt0900(prev)
      /\ CallInSecond(TimeOfDay(9, 1, 0)) )
    => /\ result.ok = FALSE
       /\ result.msg = "Please wait"
       /\ attendance = prev
       /\ result.wait = (IF call.r4 % TicksPerSec > prev[1].events[1].timestamp.frac
                         THEN waitIfLater ELSE waitOtherwise)

----------------------------------------------------------------------------
IsPrefix(seq1, seq2) ==
    Len(seq1) <= Len(seq2) /\ SubSeq(seq2, 1, Len(seq1)) = seq1

\* the events of record i of a log, none when the log has no record i
EventsAt(log, i) == IF i <= Len(log) THEN log[i].events ELSE << >>

\* C8: the log is append-only: a call removes, reorders or alters no recorded
\* event or day record (each event sequence before the call is a prefix of the
\* sequence after it), and a successful call lengthens exactly one sequence by
\* exactly one event.  prev is the log before the last call, so that this
\* speaks of every call.
C8_AppendOnly ==
    Called =>
        /\ Len(prev) <= Len(attendance)
        /\ \A i \in 1..Len(prev) :
              /\ attendance[i].employee = prev[i].employee
              /\ attendance[i].date = prev[i].date
              /\ IsPrefix(prev[i].events, attendance[i].events)
        /\ result.ok =>
              \E i \in 1..Len(attendance) :
                  /\ Len(EventsAt(attendance, i)) = Len(EventsAt(prev, i)) + 1
                  /\ \A j \in 1..Len(attendance) :
                        j # i => EventsAt(attendance, j) = EventsAt(prev, j)

\* a successful call that lengthened a record that already held events, in a
\* log that holds another record as well
C8_Witness ==
    /\ Called
    /\ result.ok
    /\ Len(prev) >= 2
    /\ \E i \in 1..Len(prev) :
          /\ prev[i].events # << >>
          /\ Len(attendance[i].events) = Len(prev[i].events) + 1

----------------------------------------------------------------------------
\* the threads inside mark_attendance for the employee e
Serving(e) == {t \in Threads : threads[t].pc # "idle" /\ threads[t].employee = e}

\* C9: under any interleaving of calls for different employees, each
\* employee's event sequences and call results are those of that employee's
\* calls run alone in the same order (solo, expect), and a call for one
\* employee never changes another employee's records: an employee's records
\* are those of its solo run, or, while its call is under way, those of the
\* solo run before or after that call.
C9_Independent ==
    /\ \A t \in Threads : threads[t].same
    /\ \A e \in Employees :
          IF Serving(e) = {}
          THEN RecordsOf(attendance, e) = solo[e]
          ELSE \A t \in Serving(e) :
                  RecordsOf(attendance, e) \in {threads[t].before, solo[e]}

\* two calls under way at once, for different employees, both having written
\* to the log: one appended an 'out' event, the other created a day record
C9_Witness ==
    \E t \in Threads, u \in Threads :
        /\ threads[t].pc = "save" /\ threads[t].next_type = "out"
        /\ threads[u].pc = "save" /\ threads[u].next_type = "in"
        /\ threads[u].today_record = 0
        /\ threads[t].employee # threads[u].employee

----------------------------------------------------------------------------
(* The face matcher over a table of enrolled employees *)

\* the embeddings of the model, and the templates a row may hold
Embeddings == {<<1, 0>>, <<0, 1>>, <<-1, 0>>, <<3, 4>>, <<4, 3>>}
Templates == Embeddings \cup {<<0, 0>>, << >>}

\* the employee ids, in the order of the rows
EmployeeIds == <<"E1", "E2", "E3", "E4">>

\* the tables of n rows
Tables(n) ==
    {[i \in 1..n |-> Employee(EmployeeIds[i], row[i][1], row[i][2])] :
        row \in [1..n -> BOOLEAN \X Templates]}

\* the values update_threshold is called with
ThresholdInputs ==
    {Fraction(0, 1), Fraction(2, 5), Fraction(3, 5), Fraction(1, 1),
     Fraction(6, 5), Fraction(-1, 5)}

InitMatch ==
    /\ now = TicksPerDay
    /\ skews = 0
    /\ attendance = << >>
    /\ call = NoCall
    /\ result = NoResult
    /\ prev = << >>
    /\ threads = [t \in Threads |-> IdleThread("none", TRUE)]
    /\ solo = [e \in Employees |-> << >>]
    /\ \E n \in 0..MaxEmployees : registry \in Tables(n)
    /\ threshold = DefaultThreshold
    /\ recog = NoRecognition
    /\ verif = NoVerification
    /\ app_employees = << >>
    /\ files = NoFiles
    /\ request = NoRequest
    /\ anti_spoofing = Service(TRUE, FALSE, DefaultLivenessThreshold)
    /\ liveness = NoLiveness
    /\ setter = NoSetter
    /\ is_processing = FALSE
    /\ workers = [t \in Threads |-> IdleWorker]

\* recognize_face on a query image whose template is query (NoFace: none found)
RecognizeFace ==
    \E query \in Embeddings \cup {<<0, 0>>, NoFace} :
        /\ LET out == recognize_face(query, registry, threshold)
           IN  recog' = [called |-> TRUE, query |-> query, threshold |-> threshold,
                         found |-> out.found, employee_id |-> out.employee_id,
                         score |-> out.score]
        /\ UNCHANGED <<registry, threshold, verif, attendanceVars, appVars, livenessVars, setterVars, processingVars>>

UpdateThreshold ==
    \E new_threshold \in ThresholdInputs :
        /\ threshold' = update_threshold(threshold, new_threshold)
        /\ UNCHANGED <<registry, recog, verif, attendanceVars, appVars, livenessVars, setterVars, processingVars>>

NextMatch == RecognizeFace \/ UpdateThreshold

SpecMatch == InitMatch /\ [][NextMatch]_vars

\* the rows the last recognize_face call compared: active, with a template
Compared == {i \in 1..Len(registry) :
                registry[i].is_active /\ registry[i].face_template # << >>}

\* the similarity of row i to the query of the last call
SimilarityOf(i) == compare_faces(recog.query, registry[i].face_template)

\* C10: whenever recognize_face returns (identity, score), the identity is an
\* active enrolled employee, score is its similarity to the query, score >=
\* threshold, no other active employee has a strictly greater similarity, and
\* among those tied at the maximum the first in iteration order is returned;
\* with an empty registry, or every similarity below the threshold, it
\* returns none.
C10_BestMatch ==
    recog.called =>
        /\ recog.found =>
              /\ recog.query # NoFace
              /\ \E i \in Compared :
                    /\ registry[i].employee_id = recog.employee_id
                    /\ recog.score = SimilarityOf(i)
                    /\ LessEq(recog.threshold, recog.score)
                    /\ \A j \in Compared : ~Less(SimilarityOf(i), SimilarityOf(j))
                    /\ \A j \in Compared : j < i => Less(SimilarityOf(j), SimilarityOf(i))
        /\ ( \/ registry = << >>
             \/ recog.query = NoFace
             \/ \A i \in Compared : Less(SimilarityOf(i), recog.threshold) )
           => ~recog.found

\* a match returned where a later row has the same, maximal, similarity
C10_Witness ==
    /\ recog.called
    /\ recog.found
    /\ \E i \in Compared, j \in Compared :
          /\ i < j
          /\ registry[i].employee_id = recog.employee_id
          /\ Same(SimilarityOf(i), SimilarityOf(j))
          /\ Less(recog.threshold, recog.score)
          /\ Less(recog.score, Fraction(1, 1))

----------------------------------------------------------------------------
\* C11: recognize_face returns none only if no active employee's similarity
\* clears the threshold: whatever threshold the setter accepted, if at least
\* one active employee with a template has similarity >= threshold to the
\* query, an identity is returned.
C11_NoneOnlyBelowThreshold ==
    ( /\ recog.called
      /\ recog.query # NoFace
      /\ \E i \in Compared : LessEq(recog.threshold, SimilarityOf(i)) )
    => recog.found

----------------------------------------------------------------------------
\* the rows the last call compared whose stored template is the query itself
ExactRows == {i \in Compared : registry[i].face_template = recog.query}

\* C12 as stated: if the registry contains an active employee whose stored
\* embedding is exactly the query embedding, recognize_face returns that
\* employee with score 1.0.
C12_ExactAsClaimed ==
    (recog.called /\ recog.query # NoFace) =>
        \A i \in ExactRows :
            /\ recog.found
            /\ recog.employee_id = registry[i].employee_id
            /\ Same(recog.score, Fraction(1, 1))

\* C12: if the registry contains an active employee whose stored embedding is
\* exactly the query embedding, and that embedding has a non-zero norm,
\* recognize_face returns score 1.0 and the first active employee whose
\* similarity to the query is 1.0: that employee, unless an earlier row
\* holds the same embedding (or one of the same direction).
C12_ExactEmbedding ==
    (recog.called /\ recog.query # NoFace /\ Norm(recog.query) # 0) =>
        \A i \in ExactRows :
            /\ recog.found
            /\ Same(recog.score, Fraction(1, 1))
            /\ \E j \in Compared :
                  /\ j <= i
                  /\ registry[j].employee_id = recog.employee_id
                  /\ Same(SimilarityOf(j), Fraction(1, 1))
                  /\ \A k \in Compared : k < j => Less(SimilarityOf(k), Fraction(1, 1))
            /\ (\A k \in Compared : k < i => registry[k].face_template # recog.query)
                  => recog.employee_id = registry[i].employee_id

\* the second row holds the query's embedding, the first row another one that
\* clears the threshold, and the second row's employee is returned
C12_Witness ==
    /\ recog.called
    /\ recog.found
    /\ Len(registry) = 2
    /\ ExactRows = {2}
    /\ 1 \in Compared
    /\ LessEq(recog.threshold, SimilarityOf(1))
    /\ recog.employee_id = registry[2].employee_id
    /\ recog.score = Fraction(1, 1)

----------------------------------------------------------------------------
(* verify_face over the same table *)

\* the employee ids verify_face is asked about: those of the rows there may
\* be, and one that is in no table
VerifyIds == {EmployeeIds[i] : i \in 1..MaxEmployees} \cup {"unknown"}

\* the templates of the rows, and the query templates, of the verifications
VerifyTemplates == {<<1, 0>>, <<4, 3>>, <<0, 0>>, << >>}
VerifyQueries == {<<1, 0>>, <<3, 4>>, <<0, 0>>, NoFace}

InitVerify ==
    /\ InitMatch
    /\ \A i \in 1..Len(registry) : registry[i].face_template \in VerifyTemplates

\* verify_face on a query image whose template is query (NoFace: none found)
VerifyFace ==
    \E query \in VerifyQueries, employee_id \in VerifyIds :
        /\ LET out == verify_face(query, registry, employee_id, threshold)
           IN  verif' = [called |-> TRUE, query |-> query, employee_id |-> employee_id,
                         threshold |-> threshold, is_match |-> out.is_match,
                         similarity |-> out.similarity]
        /\ UNCHANGED <<registry, threshold, recog, attendanceVars, appVars, livenessVars, setterVars, processingVars>>

NextVerify == VerifyFace \/ UpdateThreshold

SpecVerify == InitVerify /\ [][NextVerify]_vars

\* the rows of the identity the last verify_face call was about that are
\* active and hold a template
Verifiable == {i \in Compared : registry[i].employee_id = verif.employee_id}

\* C13: verify_face for an identity returns (true, s) exactly when the
\* identity is an active employee with a stored template, a face was found,
\* and its similarity s to the query is >= threshold; it returns (false, s)
\* when s < threshold, and (false, 0.0) when the identity is unknown,
\* inactive, has no template, or no face is found; s is the similarity to
\* that identity's template and to no other's.
C13_Verify ==
    verif.called =>
        IF verif.query # NoFace /\ Verifiable # {}
        THEN \E i \in Verifiable :
                LET s == compare_faces(verif.query, registry[i].face_template)
                IN  /\ verif.similarity = s
                    /\ verif.is_match <=> LessEq(verif.threshold, s)
        ELSE /\ ~verif.is_match
             /\ verif.similarity = Fraction(0, 1)

\* a verification that succeeds with a similarity equal to the threshold, for
\* an identity another row of which is more similar to the query
C13_Witness ==
    /\ verif.called
    /\ verif.is_match
    /\ Same(verif.similarity, verif.threshold)
    /\ \E j \in Compared :
          /\ registry[j].employee_id # verif.employee_id
          /\ Less(verif.similarity, compare_faces(verif.query, registry[j].face_template))

----------------------------------------------------------------------------
\* C14: every value compare_faces returns is in [0, 1]; it is 0 when either
\* embedding has zero norm and when the cosine is negative (clipped), and at
\* the default threshold 0.4 an employee whose similarity is 0 is not matched.
C14_Clipped ==
    (recog.called /\ recog.query # NoFace) =>
        \A i \in Compared :
            LET s == SimilarityOf(i)
                t == registry[i].face_template
            IN  /\ s.den > 0
                /\ LessEq(Fraction(0, 1), s)
                /\ LessEq(s, Fraction(1, 1))
                /\ (Norm(recog.query) = 0 \/ Norm(t) = 0) => Same(s, Fraction(0, 1))
                /\ Dot(recog.query, t) < 0 => Same(s, Fraction(0, 1))
                /\ (Same(s, Fraction(0, 1)) /\ recog.threshold = DefaultThreshold)
                      => ~(recog.found /\ recog.employee_id = registry[i].employee_id)

\* [1,0] queried against an only employee enrolled with [-1,0], at the default
\* threshold: no match
C14_Witness ==
    /\ recog.called
    /\ recog.query = <<1, 0>>
    /\ recog.threshold = DefaultThreshold
    /\ Len(registry) = 1
    /\ registry[1].is_active
    /\ registry[1].face_template = <<-1, 0>>
    /\ ~recog.found

----------------------------------------------------------------------------
(* Enrollment and recognition requests of the application, one at a time *)

\* load_data: no employees.json, or one written by an earlier run
LoadedEmployees ==
    { [employees |-> << >>, files |-> NoFiles],
      [employees |-> << Entry(1, "Bob", ImagePath("Bob"), isoformat(8 * 3600 * TicksPerSec)) >>,
       files |-> [NoFiles EXCEPT ![ImagePath("Bob")] = "face1"]] }

InitApp ==
    /\ now = TicksPerDay + (9 * 3600 * TicksPerSec)
    /\ skews = 0
    /\ attendance = << >>
    /\ call = NoCall
    /\ result = NoResult
    /\ prev = << >>
    /\ threads = [t \in Threads |-> IdleThread("none", TRUE)]
    /\ solo = [e \in Employees |-> << >>]
    /\ registry = << >>
    /\ threshold = DefaultThreshold
    /\ recog = NoRecognition
    /\ verif = NoVerification
    /\ \E loaded \in LoadedEmployees :
          /\ app_employees = loaded.employees
          /\ files = loaded.files
    /\ request = NoRequest
    /\ anti_spoofing = Service(TRUE, FALSE, DefaultLivenessThreshold)
    /\ liveness = NoLiveness
    /\ setter = NoSetter
    /\ is_processing = FALSE
    /\ workers = [t \in Threads |-> IdleWorker]

\* POST /add_employee
AddEmployee ==
    \E name \in Names, image \in Images, spoofing_result \in SpoofingResults,
       fault \in AddFaults :
        LET out == add_employee(app_employees, files, name, image,
                                spoofing_result, fault, now)
        IN  /\ app_employees' = out.employees
            /\ files' = out.files
            /\ request' = [op |-> "add_employee",
                           spoofing_result |-> spoofing_result, ok |-> out.ok,
                           msg |-> out.msg, identity |-> "none", matched |-> FALSE]
            /\ UNCHANGED <<attendanceVars, matcherVars, livenessVars, setterVars, processingVars>>

\* the distances DeepFace.find reports, in hundredths
FindDistances == {60, 65}

\* what DeepFace.find may return over the stored images
FindResults(fls) ==
    {FindRaised, Found(<< >>)} \cup
    {Found(<< FoundRow(path, distance) >>) :
        path \in {p \in ImagePaths : fls[p] # "none"}, distance \in FindDistances}

\* POST /recognize
Recognize ==
    \E decodable \in BOOLEAN, spoofing_result \in SpoofingResults,
       found \in FindResults(files) :
        LET out == app_recognize_face(app_employees, files, decodable,
                                      spoofing_result, found)
        IN  /\ request' = [op |-> "recognize_face",
                           spoofing_result |-> spoofing_result, ok |-> out.is_real,
                           msg |-> out.msg, identity |-> out.identity,
                           matched |-> out.matched]
            /\ UNCHANGED <<app_employees, files, attendanceVars, matcherVars, livenessVars, setterVars, processingVars>>

NextApp == AddEmployee \/ Recognize

SpecApp == InitApp /\ [][NextApp]_vars

\* the liveness check of the last request reported a real face
ReportedReal(spoofing_result) ==
    ~spoofing_result.raised /\ RealFaceDetected(spoofing_result)

\* C15: recognize_face runs template matching only after the liveness check
\* passed: a request whose liveness check did not report a real face (it
\* reported a spoof, found no face, or failed) never reaches matching and
\* never returns an identity.
C15_MatchOnlyAfterLiveness ==
    (request.op = "recognize_face" /\ ~ReportedReal(request.spoofing_result))
        => (~request.matched /\ request.identity = "none")

\* the last step was an add_employee call
Enrolling == request'.op = "add_employee"

\* C16: add_employee creates or changes a registry entry only when the
\* liveness check on the enrollment image reported a real face; when no face
\* is detected, a spoof is detected, or the check raises, it returns failure
\* and the registry (entries and stored images) is unchanged.
C16_EnrollOnlyReal ==
    [][ Enrolling =>
          /\ (app_employees' # app_employees \/ files' # files)
                => ReportedReal(request'.spoofing_result)
          /\ ~ReportedReal(request'.spoofing_result)
                => /\ ~request'.ok
                   /\ app_employees' = app_employees
                   /\ files' = files ]_vars

\* an enrollment refused because the liveness check raised, after one that
\* was stored in this run
C16_Witness ==
    /\ request.op = "add_employee"
    /\ request.spoofing_result.raised
    /\ ~request.ok
    /\ request.msg = "Error during antispoofing verification"
    /\ \E i \in 1..Len(app_employees) : app_employees[i].name = "Ann Lee"

\* C17: once an identity is enrolled, its registry entry and its stored
\* image are never changed by a later operation, a later enrollment of any
\* name included.
C17_EntriesImmutable ==
    [][ \A i \in 1..Len(app_employees) :
          /\ i <= Len(app_employees')
          /\ app_employees'[i] = app_employees[i]
          /\ files'[app_employees[i].image_path] = files[app_employees[i].image_path] ]_vars

----------------------------------------------------------------------------
(* Liveness checks of the AntiSpoofingService *)

\* what the color analysis may measure: an analysis that raises, a grayscale
\* image, and saturations of the high, the middle and the low bucket (the
\* histogram entropy the code computes over pixel counts is never positive)
ColorMeasure(raises, channels, sat_std, sat_mean, avg_entropy) ==
    [raises |-> raises, channels |-> channels, sat_std |-> sat_std,
     sat_mean |-> sat_mean, avg_entropy |-> avg_entropy]
ColorMeasures ==
    { ColorMeasure(TRUE, 3, 0, 0, 0), ColorMeasure(FALSE, 2, 0, 0, 0),
      ColorMeasure(FALSE, 3, 21, 51, 0), ColorMeasure(FALSE, 3, 11, 31, 0) }

TextureMeasure(raises, lbp_raises, gray_var, lbp_var, grad_mean) ==
    [raises |-> raises, lbp_raises |-> lbp_raises, gray_var |-> gray_var,
     lbp_var |-> lbp_var, grad_mean |-> grad_mean]
TextureMeasures ==
    { TextureMeasure(TRUE, FALSE, 0, 0, 0), TextureMeasure(FALSE, FALSE, 40, 1001, 11),
      TextureMeasure(FALSE, FALSE, 40, 500, 6), TextureMeasure(FALSE, TRUE, 600, 0, 6) }

FrequencyMeasure(raises, high_freq_ratio) ==
    [raises |-> raises, high_freq_ratio |-> high_freq_ratio]
FrequencyMeasures ==
    { FrequencyMeasure(TRUE, 0), FrequencyMeasure(FALSE, 30), FrequencyMeasure(FALSE, 20) }

ReflectionMeasure(raises, spots, avg_spot_size, max_spot_size) ==
    [raises |-> raises, spots |-> spots, avg_spot_size |-> avg_spot_size,
     max_spot_size |-> max_spot_size]
ReflectionMeasures ==
    { ReflectionMeasure(TRUE, 0, 0, 0), ReflectionMeasure(FALSE, 0, 0, 0),
      ReflectionMeasure(FALSE, 3, 10, 500) }

\* what the four extractors measure on one image
Measures ==
    [color : ColorMeasures, texture : TextureMeasures,
     frequency : FrequencyMeasures, reflection : ReflectionMeasures]

\* the scores and labels the classifier may report
PredictedScores == {Fraction(0, 1), Fraction(9, 10), Fraction(2, 1)}
Predictions ==
    {PredictRaised, PredictOther}
    \cup {PredictDict(score, label) : score \in PredictedScores, label \in {0, 1}}
    \cup {PredictNumber(score) : score \in PredictedScores}

\* the values the threshold setter is called with
LivenessThresholdInputs ==
    {Fraction(0, 1), Fraction(3, 10), Fraction(1, 1), Fraction(11, 10), Fraction(-1, 10)}

InitLive ==
    /\ now = TicksPerDay
    /\ skews = 0
    /\ attendance = << >>
    /\ call = NoCall
    /\ result = NoResult
    /\ prev = << >>
    /\ threads = [t \in Threads |-> IdleThread("none", TRUE)]
    /\ solo = [e \in Employees |-> << >>]
    /\ registry = << >>
    /\ threshold = DefaultThreshold
    /\ recog = NoRecognition
    /\ verif = NoVerification
    /\ app_employees = << >>
    /\ files = NoFiles
    /\ request = NoRequest
    /\ \E enabled \in BOOLEAN, model_loaded \in BOOLEAN :
          /\ model_loaded => enabled
          /\ anti_spoofing = Service(enabled, model_loaded, DefaultLivenessThreshold)
    /\ liveness = NoLiveness
    /\ setter = NoSetter
    /\ is_processing = FALSE
    /\ workers = [t \in Threads |-> IdleWorker]

\* which of the four extractors raised
RaisedIn(measured) ==
    << measured.color.raises, measured.texture.raises,
       measured.frequency.raises, measured.reflection.raises >>

\* the verdict of a call: is_real_face and get_liveness_score on one image
Checked(path, fault, scores, measured, raises, prediction) ==
    [called |-> TRUE, path |-> path, fault |-> fault, scores |-> scores,
     raised |-> IF scores = << >> THEN << >> ELSE RaisedIn(measured),
     prediction |-> prediction, model_loaded |-> anti_spoofing.model_loaded,
     threshold |-> anti_spoofing.threshold,
     is_real |-> is_real_face(anti_spoofing, measured, raises, prediction),
     score |-> get_liveness_score(anti_spoofing, measured, raises, prediction)]

\* any image: what it measures does not matter on the path taken
AnyMeasure == CHOOSE measured \in Measures : TRUE

\* the four signal scores of an image
SignalScores(measured) ==
    << _analyze_color_distribution(measured.color),
       _analyze_texture(measured.texture),
       _analyze_frequency_domain(measured.frequency),
       _analyze_reflections(measured.reflection) >>

\* an extractor raised (and caught what it raised)
ExtractorRaised(measured) ==
    \/ measured.color.raises
    \/ measured.texture.raises
    \/ measured.frequency.raises
    \/ measured.reflection.raises

\* a liveness check with the service disabled
CheckDisabled ==
    /\ ~anti_spoofing.enabled
    /\ liveness' = Checked("disabled", "none", << >>, AnyMeasure, FALSE, PredictOther)

\* a liveness check by the trained classifier; preprocessing may raise
CheckTrained ==
    /\ anti_spoofing.enabled
    /\ anti_spoofing.model_loaded
    /\ \E prediction \in Predictions, preprocess_raises \in BOOLEAN :
          liveness' = Checked("trained",
                              IF prediction.kind = "raises" THEN "detector"
                              ELSE IF preprocess_raises THEN "preprocess"
                              ELSE "none",
                              << >>, AnyMeasure, FALSE, prediction)

\* a liveness check by the heuristics; an extractor, or a statement
\* outside them, may raise
CheckHeuristic ==
    /\ anti_spoofing.enabled
    /\ ~anti_spoofing.model_loaded
    /\ \E measured \in Measures, raises \in BOOLEAN :
          liveness' = Checked("heuristic",
                              IF raises THEN "detector"
                              ELSE IF ExtractorRaised(measured) THEN "extractor"
                              ELSE "none",
                              SignalScores(measured), measured, raises, PredictOther)

CheckLiveness ==
    /\ CheckDisabled \/ CheckTrained \/ CheckHeuristic
    /\ UNCHANGED <<anti_spoofing, attendanceVars, matcherVars, appVars, setterVars, processingVars>>

\* AntiSpoofingService.update_threshold
UpdateLivenessThreshold ==
    \E new_threshold \in LivenessThresholdInputs :
        /\ anti_spoofing' =
              [anti_spoofing EXCEPT !.threshold =
                                        anti_spoofing_update_threshold(@, new_threshold)]
        /\ UNCHANGED <<liveness, attendanceVars, matcherVars, appVars, setterVars, processingVars>>

\* enable_anti_spoofing(enable)
EnableAntiSpoofing ==
    \E enable \in BOOLEAN :
        /\ anti_spoofing' = [anti_spoofing EXCEPT !.enabled = enable]
        /\ UNCHANGED <<liveness, attendanceVars, matcherVars, appVars, setterVars, processingVars>>

NextLive == CheckLiveness \/ UpdateLivenessThreshold \/ EnableAntiSpoofing

SpecLive == InitLive /\ [][NextLive]_vars

\* the sum of the four signal scores of the last verdict, in twentieths
SumOfSignals ==
    (liveness.scores[1].num * (20 \div liveness.scores[1].den))
    + (liveness.scores[2].num * (20 \div liveness.scores[2].den))
    + (liveness.scores[3].num * (20 \div liveness.scores[3].den))
    + (liveness.scores[4].num * (20 \div liveness.scores[4].den))

\* C18: on the heuristic path the verdict's score is the arithmetic mean of
\* the four signal scores and is_real is true exactly when that mean is
\* strictly greater than the threshold (a mean equal to the threshold is not
\* real); the threshold is 0.5 until the setter changes it.
C18_MeanAndStrict ==
    /\ (liveness.called /\ liveness.path = "heuristic" /\ liveness.fault # "detector") =>
          /\ Len(liveness.scores) = 4
          /\ Same(liveness.score, Fraction(SumOfSignals, 4 * 20))
          /\ liveness.is_real <=> Less(liveness.threshold, liveness.score)
          /\ Same(liveness.score, liveness.threshold) => ~liveness.is_real
    /\ \/ anti_spoofing.threshold = Fraction(1, 2)
       \/ /\ anti_spoofing.threshold \in LivenessThresholdInputs
          /\ LessEq(Fraction(0, 1), anti_spoofing.threshold)
          /\ LessEq(anti_spoofing.threshold, Fraction(1, 1))

\* a heuristic verdict at the default threshold whose four signals are not
\* all equal and whose mean is exactly 0.5: not real
C18_Witness ==
    /\ liveness.called
    /\ liveness.path = "heuristic"
    /\ liveness.fault = "none"
    /\ liveness.threshold = Fraction(1, 2)
    /\ Same(liveness.score, Fraction(1, 2))
    /\ ~Same(liveness.scores[1], liveness.scores[2])
    /\ ~liveness.is_real

----------------------------------------------------------------------------
C20_ScoreInRange ==
    liveness.called =>
        /\ LessEq(Fraction(0, 1), liveness.score)
        /\ LessEq(liveness.score, Fraction(1, 1))

----------------------------------------------------------------------------
(* The threshold setters of the two services *)

InitThreshold ==
    /\ InitLive
    /\ anti_spoofing = Service(TRUE, FALSE, DefaultLivenessThreshold)

\* FaceRecognitionService.update_threshold(new_threshold)
SetMatcherThreshold ==
    \E new_threshold \in ThresholdInputs :
        /\ threshold' = update_threshold(threshold, new_threshold)
        /\ setter' = [service |-> "matcher", value |-> new_threshold, before |-> threshold]
        /\ UNCHANGED <<registry, recog, verif, attendanceVars, appVars, livenessVars, processingVars>>

\* AntiSpoofingService.update_threshold(new_threshold)
SetLivenessThreshold ==
    \E new_threshold \in LivenessThresholdInputs :
        /\ anti_spoofing' =
              [anti_spoofing EXCEPT !.threshold =
                                        anti_spoofing_update_threshold(@, new_threshold)]
        /\ setter' = [service |-> "liveness", value |-> new_threshold,
                      before |-> anti_spoofing.threshold]
        /\ UNCHANGED <<liveness, attendanceVars, matcherVars, appVars, processingVars>>

NextThreshold == SetMatcherThreshold \/ SetLivenessThreshold

SpecThreshold == InitThreshold /\ [][NextThreshold]_vars

\* the fraction is in [0, 1]
InUnit(f) == LessEq(Fraction(0, 1), f) /\ LessEq(f, Fraction(1, 1))

\* the threshold of the service the last setter call was made on
ThresholdOf(service) ==
    IF service = "matcher" THEN threshold ELSE anti_spoofing.threshold

\* C21: after any sequence of update_threshold calls on the liveness scorer
\* or on the matcher, both thresholds lie in [0, 1]; a call with a value in
\* [0, 1] sets the threshold to that value, a call with a value outside
\* [0, 1] leaves the threshold as it was.
C21_ThresholdInUnit ==
    /\ InUnit(threshold)
    /\ InUnit(anti_spoofing.threshold)
    /\ setter.service # "none" =>
          ThresholdOf(setter.service) =
              IF InUnit(setter.value) THEN setter.value ELSE setter.before

\* a value above 1 refused by the liveness scorer after another value was
\* set, and the matcher's threshold set to the bound 1.0
C21_Witness ==
    /\ setter.service = "liveness"
    /\ Less(Fraction(1, 1), setter.value)
    /\ anti_spoofing.threshold = setter.before
    /\ setter.before # DefaultLivenessThreshold
    /\ threshold = Fraction(1, 1)

----------------------------------------------------------------------------
----------------------------------------------------------------------------
\* C23: for a check made while anti-spoofing is enabled, the trained
\* classifier produces the verdict exactly when a model is loaded, and the
\* heuristic scorer exactly when none is; no extractor runs for a check
\* served by a loaded model.
C23_PathByModel ==
    (liveness.called /\ liveness.path # "disabled") =>
        /\ liveness.model_loaded = anti_spoofing.model_loaded
        /\ liveness.path = "trained" <=> liveness.model_loaded
        /\ liveness.path = "heuristic" <=> ~liveness.model_loaded
        /\ liveness.model_loaded =>
              /\ liveness.scores = << >>
              /\ LET out == _detect_with_minifasnet(liveness.prediction, liveness.threshold)
                 IN  liveness.is_real = out.is_real /\ liveness.score = out.score
        /\ ~liveness.model_loaded =>
              /\ Len(liveness.scores) = 4
              /\ liveness.fault # "detector" =>
                    Same(liveness.score, Fraction(SumOfSignals, 4 * 20))

\* a check served by a loaded model whose classifier reports a spoof with a
\* score above the threshold: the verdict is the classifier's
C23_Witness ==
    /\ liveness.called
    /\ liveness.path = "trained"
    /\ liveness.model_loaded
    /\ liveness.prediction = PredictDict(Fraction(9, 10), 0)
    /\ ~liveness.is_real
    /\ liveness.score = Fraction(9, 10)
    /\ Less(liveness.threshold, liveness.score)

----------------------------------------------------------------------------
(* mark_attendance step by step with nothing serializing the requests: two  *)
(* threads may be inside the function for the same employee                 *)

\* a request for any employee, whatever the other thread is doing
BeginAny ==
    \E t \in Threads, e \in Employees : BeginCall(t, e, 0)

NextRace ==
    \/ Tick
    \/ BeginAny
    \/ ScanStep
    \/ CreateStep
    \/ CheckStep
    \/ AppendEventStep
    \/ SaveStep

SpecRace == InitPar /\ [][NextRace]_vars

\* date and employee occur at most once among the records of the log
OneRecordPerDay(att) ==
    \A i \in 1..Len(att), j \in 1..Len(att) :
        (att[i].employee = att[j].employee /\ att[i].date = att[j].date) => i = j

\* C26: after any sequence of mark_attendance calls, concurrent first-of-day
\* calls for the same employee included, the log holds at most one record
\* for each (employee, date) pair.
C26_OneRecordPerDay == OneRecordPerDay(attendance)

\* the threads t and u are past the cooldown check for the same record, both
\* having read its last event when it held the same number of events
Raced(t, u) ==
    /\ t # u
    /\ threads[t].pc \in {"append", "save"}
    /\ threads[u].pc \in {"append", "save"}
    /\ threads[t].today_record # 0
    /\ threads[t].today_record = threads[u].today_record
    /\ threads[t].seen = threads[u].seen

\* C24: the cooldown check and the append are not one atomic step: two
\* unserialized calls for the same employee that read the same last event
\* both pass the cooldown check and both append an event, of the same type,
\* so that the record ends with two events of one type after one of the
\* other type.
C24_CheckThenAppend ==
    \A t \in Threads, u \in Threads :
        Raced(t, u) =>
            LET events == attendance[threads[t].today_record].events
                seen == threads[t].seen
            IN  /\ threads[t].employee = threads[u].employee
                /\ threads[t].next_type = threads[u].next_type
                /\ seen > 0 => events[seen].type = Opposite(threads[t].next_type)
                /\ (threads[t].pc = "save" /\ threads[u].pc = "save") =>
                      /\ Len(events) = seen + 2
                      /\ events[seen + 1].type = threads[t].next_type
                      /\ events[seen + 2].type = threads[t].next_type

\* both calls have appended: the record reads in, out, out
C24_Witness ==
    \E t \in Threads, u \in Threads :
        /\ Raced(t, u)
        /\ threads[t].pc = "save"
        /\ threads[u].pc = "save"
        /\ threads[t].seen = 1
        /\ threads[t].next_type = "out"
        /\ Len(attendance[threads[t].today_record].events) = 3

----------------------------------------------------------------------------
(* mark_attendance when save_attendance may raise (lines 60-63 open and     *)
(* write the file): the outer except clause of lines 290-291 answers        *)

\* one call of mark_attendance; saved tells whether save_attendance returned
MarkSaving(saved) ==
    \E e \in Employees, gap \in {0, 2, 3, 4} :
        /\ gap # 0 => skews < MaxSkew
        /\ LET r1 == ReadAt(now, gap, 1)
               r2 == ReadAt(now, gap, 2)
               r3 == ReadAt(now, gap, 3)
               r4 == ReadAt(now, gap, 4)
               out == mark_attendance(attendance, e, r1, r2, r3, r4, saved)
           IN  /\ attendance' = out.att
               /\ result' = [ok |-> out.ok, msg |-> out.msg, wait |-> out.wait]
               /\ call' = [employee |-> e, r1 |-> r1, r2 |-> r2, r3 |-> r3, r4 |-> r4]
               /\ prev' = attendance
               /\ now' = r4
        /\ skews' = IF gap = 0 THEN skews ELSE skews + 1
        /\ UNCHANGED <<threads, solo, matcherVars, appVars, livenessVars, setterVars, processingVars>>

NextSave == Tick \/ MarkSaving(TRUE) \/ MarkSaving(FALSE)

SpecSave == Init /\ [][NextSave]_vars

\* C25: a call of mark_attendance that returns ok = false, for the cooldown
\* or for an internal error, leaves the in-memory log as it was before the
\* call.
C25_FailureKeepsLog ==
    (result # NoResult /\ ~result.ok) => attendance = prev

\* C29: after any sequence of add_employee calls no two entries of the
\* registry carry the same numeric id.
C29_UniqueIds ==
    \A i \in 1..Len(app_employees), j \in 1..Len(app_employees) :
        app_employees[i].id = app_employees[j].id => i = j

----------------------------------------------------------------------------
(* POST /mark_attendance beside POST /add_employee: the name comes from the *)
(* request body                                                             *)

\* what the request body may give as data.get('employee')
PostedNames == Names \cup {""}

\* POST /mark_attendance, lines 354-368
MarkAttendanceRoute ==
    \E employee_name \in PostedNames :
        IF employee_name = ""
        THEN /\ request' = [NoRequest EXCEPT !.op = "mark_attendance",
                                             !.msg = "Employee name required"]
             /\ UNCHANGED <<attendanceVars, matcherVars, app_employees, files,
                            livenessVars, setterVars, processingVars>>
        ELSE LET out == mark_attendance(attendance, employee_name,
                                        now, now, now, now, TRUE)
             IN  /\ attendance' = out.att
                 /\ request' = [NoRequest EXCEPT !.op = "mark_attendance",
                                                 !.ok = out.ok, !.msg = out.msg,
                                                 !.identity = employee_name]
                 /\ UNCHANGED <<now, skews, call, result, prev, threads, solo,
                                matcherVars, app_employees, files,
                                livenessVars, setterVars, processingVars>>

\* POST /add_employee with a decodable picture and no file operation failing
EnrollFace ==
    \E name \in Names, spoofing_result \in {Faces(<<FALSE>>), Faces(<<TRUE>>)} :
        LET out == add_employee(app_employees, files, name, "face1",
                                spoofing_result, "none", now)
        IN  /\ app_employees' = out.employees
            /\ files' = out.files
            /\ request' = [op |-> "add_employee",
                           spoofing_result |-> spoofing_result, ok |-> out.ok,
                           msg |-> out.msg, identity |-> "none", matched |-> FALSE]
            /\ UNCHANGED <<attendanceVars, matcherVars, livenessVars, setterVars, processingVars>>

NextRoll == EnrollFace \/ MarkAttendanceRoute

SpecRoll == InitApp /\ [][NextRoll]_vars

\* C27: every record of the attendance log names an employee who is in the
\* registry (entries are never removed, so one present when the event was
\* marked is present still).
C27_OnlyEnrolled ==
    \A i \in 1..Len(attendance) :
        \E j \in 1..Len(app_employees) :
            app_employees[j].name = attendance[i].employee

\* the event carries a timestamp written by isoformat
Stamped(event) == event.timestamp.kind = "iso"

\* C30: every event stored in the record for date D has a timestamp whose
\* calendar date is D and a time field equal to the timestamp's time of day,
\* also when the call's clock reads fall on both sides of midnight.
C30_EventOfTheDay ==
    \A i \in 1..Len(attendance) :
        \A k \in 1..Len(attendance[i].events) :
            LET event == attendance[i].events[k]
            IN  Stamped(event) =>
                    /\ event.timestamp.date = attendance[i].date
                    /\ event.time = event.timestamp.sec

----------------------------------------------------------------------------
(* AttendanceSystem.recognize_face under the threaded server: the test of  *)
(* is_processing (line 145), its setting (148), the body (150-236) and the *)
(* finally clause (239) are separate steps of a request thread             *)

\* line 145-146: the flag is read; a set flag answers at once
Arrive(t) ==
    /\ workers[t].pc = "idle"
    /\ workers' = [workers EXCEPT ![t] =
                      IF is_processing
                      THEN [pc |-> "idle", msg |-> "Processing previous request",
                            busy |-> TRUE]
                      ELSE [pc |-> "set", msg |-> "none", busy |-> FALSE]]
    /\ UNCHANGED <<is_processing, attendanceVars, matcherVars, appVars, livenessVars, setterVars>>

\* line 148: is_processing = True
SetFlag(t) ==
    /\ workers[t].pc = "set"
    /\ is_processing' = TRUE
    /\ workers' = [workers EXCEPT ![t] = [@ EXCEPT !.pc = "body"]]
    /\ UNCHANGED <<attendanceVars, matcherVars, appVars, livenessVars, setterVars>>

\* lines 150-236: the recognition, up to its return statement
Body(t) ==
    /\ workers[t].pc = "body"
    /\ \E decodable \in BOOLEAN, spoofing_result \in SpoofingResults,
          found \in FindResults(files) :
          LET out == app_recognize_face(app_employees, files, decodable,
                                        spoofing_result, found)
          IN  workers' = [workers EXCEPT ![t] =
                             [@ EXCEPT !.pc = "finally", !.msg = out.msg]]
    /\ UNCHANGED <<is_processing, attendanceVars, matcherVars, appVars, livenessVars, setterVars>>

\* lines 238-239: is_processing = False, and the call returns
Finally(t) ==
    /\ workers[t].pc = "finally"
    /\ is_processing' = FALSE
    /\ workers' = [workers EXCEPT ![t] = [@ EXCEPT !.pc = "idle"]]
    /\ UNCHANGED <<attendanceVars, matcherVars, appVars, livenessVars, setterVars>>

NextBusy ==
    \/ \E t \in Threads : Arrive(t)
    \/ \E t \in Threads : SetFlag(t)
    \/ \E t \in Threads : Body(t)
    \/ \E t \in Threads : Finally(t)

SpecBusy == InitApp /\ [][NextBusy]_vars

\* the thread is executing the recognition body
InBody(t) == workers[t].pc \in {"body", "finally"}

\* C28: is_processing gives mutual exclusion: at most one request executes
\* the recognition body at a time, and a request let into the body found no
\* other request in progress.
C28_MutualExclusion ==
    \A t \in Threads, u \in Threads : (InBody(t) /\ InBody(u)) => t = u

====
